---- MODULE Spec2Model ----
(***************************************************************************)
(* about:trackers (src/aboutTrackers/lib/main.js): the tracking ledger,    *)
(* the auto-block policy, the content policy (shouldLoad), the one-slot    *)
(* cookie-stripping handshake with the http-on-modify-request observer,    *)
(* the reload grace window and the about:trackers page handlers.           *)
(*                                                                         *)
(* Domains are numbered.  The domains of TrackerDomains are the ones that  *)
(* are requested as third parties; every domain can be the top-level site  *)
(* of a page.  A URL is a pair <<base domain, path>>.                      *)
(***************************************************************************)
EXTENDS Integers, FiniteSets, Sequences, TLC

VARIABLES
  trackers,            \* storage.trackers: tracker -> set of tracked sites ({} = no entry)
  blocked,             \* storage.blocked: tracker -> undefined | "cookie" | "connection" | 0 | 1
  autoBlockThreshold,  \* storage.autoBlockThreshold
  allTracked,          \* allTracked: the sites tracked by some tracker
  unCookieNext,        \* the next url that should have cookies removed, or null
  acceptForReload,     \* the reload flag
  timers,              \* number of pending setTimeout callbacks of onReload
  knownNotTrackers,    \* domainPrefs.knownNotTrackers
  potentialTrackers,   \* domainPrefs.potentialTrackers
  cookies,             \* hosts for which Services.cookies counts at least one cookie
  last,                \* the most recent shouldLoad / unCookier call: its url, what it returned,
                       \* whether it armed the slot and whether its catch block ran
  emitted              \* the update_block messages emitted by the most recent handler

vars == <<trackers, blocked, autoBlockThreshold, allTracked, unCookieNext,
          acceptForReload, timers, knownNotTrackers, potentialTrackers,
          cookies, last, emitted>>

----------------------------------------------------------------------------
(* Program constants *)

AUTO_BLOCK_COOKIE == "cookie"
AUTO_BLOCK_CONNECTION == "connection"
CONNECTION_MULTIPLIER == 2
DEFAULT_AUTO_BLOCK_THRESHOLD == 5

ACCEPT == "ACCEPT"
REJECT_REQUEST == "REJECT_REQUEST"
TYPE_DOCUMENT == "TYPE_DOCUMENT"
TYPE_OTHER == "TYPE_OTHER"

\* JavaScript values of storage.blocked[tracker]: the two numbers written by
\* toggle_block are kept apart from the strings written by updateAutoBlock.
undefined == "undefined"
number0 == "0"
number1 == "1"
null == <<>>

----------------------------------------------------------------------------
(* Bounds *)

NumDomains == 12     \* domains 1..NumDomains
MaxThreshold == 1    \* set_threshold is given 1..MaxThreshold or the default
MaxTimers == 2       \* pending reload timers
NumPaths == 1        \* paths per domain

Domains == 1..NumDomains
TrackerDomains == {1, 2}
PlainSites == Domains \ TrackerDomains
\* the sites of the short browsing session: the tracker domains and one plain site
SmallSites == {1, 2, 3}
URLs == TrackerDomains \X (1..NumPaths)
\* the urls requested in the long browsing session: one per tracker domain
LongSessionURLs == {url \in URLs : url[2] = 1}
Thresholds == (1..MaxThreshold) \cup {DEFAULT_AUTO_BLOCK_THRESHOLD}
BlockedValues == {undefined, AUTO_BLOCK_COOKIE, AUTO_BLOCK_CONNECTION, number0, number1}

----------------------------------------------------------------------------
(* Helpers *)

\* Services.eTLD.getBaseDomain(contentLocation)
getBaseDomain(url) == url[1]

\* typeof v == "number"
IsNumber(v) == v \in {number0, number1}

\* JavaScript truthiness of a stored blocked value
Truthy(v) == v \notin {undefined, number0}

\* the toggle treating only the number 1 as blocked
ToggleValueOnlyOne(v) == IF v = number1 THEN number0 ELSE number1

\* +!v
ToggleValue(v) == IF Truthy(v) THEN number0 ELSE number1

\* Object.keys(storage.trackers)
TrackerKeys(tr) == {t \in TrackerDomains : tr[t] # {}}

\* isCookied(tracker)
isCookied(tracker) == tracker \in cookies

\* Object.keys(storage.trackers[tracker]).length
numTracked(tr, tracker) == Cardinality(tr[tracker])

\* newBlocked with the connection threshold compared by > instead of >=
newBlockedStrict(tracker, tr, all, threshold) ==
  IF isCookied(tracker)
  THEN IF numTracked(tr, tracker) > threshold * CONNECTION_MULTIPLIER
       THEN IF tracker \in all THEN AUTO_BLOCK_COOKIE ELSE AUTO_BLOCK_CONNECTION
       ELSE IF numTracked(tr, tracker) >= threshold
            THEN AUTO_BLOCK_COOKIE
            ELSE undefined
  ELSE undefined

\* lines 306-326 of updateAutoBlock: the new blocked status
newBlocked(tracker, tr, all, threshold) ==
  IF isCookied(tracker)
  THEN IF numTracked(tr, tracker) >= threshold * CONNECTION_MULTIPLIER
       THEN IF tracker \in all THEN AUTO_BLOCK_COOKIE ELSE AUTO_BLOCK_CONNECTION
       ELSE IF numTracked(tr, tracker) >= threshold
            THEN AUTO_BLOCK_COOKIE
            ELSE undefined
  ELSE undefined

\* updateAutoBlock without the early return for user-set values
updateAutoBlockNoUserCheck(tracker, tr, all, bl, threshold) ==
  LET oldBlocked == bl[tracker]
      nb == newBlocked(tracker, tr, all, threshold) IN
  IF nb # oldBlocked
  THEN [blocked |-> [bl EXCEPT ![tracker] = nb], changed |-> TRUE]
  ELSE [blocked |-> bl, changed |-> FALSE]

\* updateAutoBlock(tracker): the new storage.blocked and the returned flag
updateAutoBlock(tracker, tr, all, bl, threshold) ==
  LET oldBlocked == bl[tracker] IN
  IF IsNumber(oldBlocked)
  THEN [blocked |-> bl, changed |-> FALSE]
  ELSE LET nb == newBlocked(tracker, tr, all, threshold) IN
       IF nb # oldBlocked
       THEN [blocked |-> [bl EXCEPT ![tracker] = nb], changed |-> TRUE]
       ELSE [blocked |-> bl, changed |-> FALSE]

\* updateAllAutoBlocked(notify): updateAutoBlock for every key of
\* storage.trackers (each call reads and writes only its own tracker's level)
updateAllAutoBlocked(notify, tr, all, bl, threshold) ==
  LET upd(t) == updateAutoBlock(t, tr, all, bl, threshold) IN
  [blocked |-> [t \in TrackerDomains |->
                  IF t \in TrackerKeys(tr) THEN upd(t).blocked[t] ELSE bl[t]],
   emitted |-> IF notify
               THEN {<<t, upd(t).blocked[t]>> : t \in {k \in TrackerKeys(tr) : upd(k).changed}}
               ELSE {}]

NoCall == [op |-> "none", url |-> null, ret |-> "none", armed |-> FALSE, failed |-> FALSE]

----------------------------------------------------------------------------
(* The content policy *)

\* shouldLoadVerdict with the connection test first, so that a tracker listed
\* in potentialTrackers is rejected when its level is connection or user-blocked
shouldLoadVerdictRejectFirst(bl, trackerDomain, url) ==
  IF bl[trackerDomain] = AUTO_BLOCK_COOKIE
  THEN [unCookieNext |-> url, verdict |-> ACCEPT, armed |-> TRUE]
  ELSE IF Truthy(bl[trackerDomain])
  THEN [unCookieNext |-> unCookieNext, verdict |-> REJECT_REQUEST, armed |-> FALSE]
  ELSE IF trackerDomain \in potentialTrackers
  THEN [unCookieNext |-> url, verdict |-> ACCEPT, armed |-> TRUE]
  ELSE [unCookieNext |-> unCookieNext, verdict |-> ACCEPT, armed |-> FALSE]

\* lines 127-139 with the slot written only when it is empty, so that a url
\* armed earlier stays pending
shouldLoadVerdictKeepPending(bl, trackerDomain, url) ==
  IF bl[trackerDomain] = AUTO_BLOCK_COOKIE \/ trackerDomain \in potentialTrackers
  THEN [unCookieNext |-> IF unCookieNext = null THEN url ELSE unCookieNext,
        verdict |-> ACCEPT, armed |-> TRUE]
  ELSE IF Truthy(bl[trackerDomain])
  THEN [unCookieNext |-> unCookieNext, verdict |-> REJECT_REQUEST, armed |-> FALSE]
  ELSE [unCookieNext |-> unCookieNext, verdict |-> ACCEPT, armed |-> FALSE]

\* lines 127-139 of shouldLoad: arm the cookie removal, reject or accept
shouldLoadVerdict(bl, trackerDomain, url) ==
  IF bl[trackerDomain] = AUTO_BLOCK_COOKIE \/ trackerDomain \in potentialTrackers
  THEN [unCookieNext |-> url, verdict |-> ACCEPT, armed |-> TRUE]
  ELSE IF Truthy(bl[trackerDomain])
  THEN [unCookieNext |-> unCookieNext, verdict |-> REJECT_REQUEST, armed |-> FALSE]
  ELSE [unCookieNext |-> unCookieNext, verdict |-> ACCEPT, armed |-> FALSE]

\* shouldLoad with the failure of isCookied caught around updateAutoBlock only:
\* the stored level is left as it was and the request goes on to lines 127-139
shouldLoadResultCatchInner(req) ==
  LET trackerDomain == getBaseDomain(req.url)
      contextDomain == req.top
      same(v) == [trackers |-> trackers, allTracked |-> allTracked,
                  blocked |-> blocked, unCookieNext |-> unCookieNext,
                  verdict |-> v, armed |-> FALSE, failed |-> FALSE]
  IN
  IF acceptForReload THEN same(ACCEPT)
  ELSE IF req.contentType = TYPE_DOCUMENT THEN same(ACCEPT)
  ELSE IF req.fail = "classify" THEN [same(ACCEPT) EXCEPT !.failed = TRUE]
  ELSE IF req.private THEN same(ACCEPT)
  ELSE IF trackerDomain = contextDomain THEN same(ACCEPT)
  ELSE IF trackerDomain \in knownNotTrackers THEN same(ACCEPT)
  ELSE
    LET isNew == contextDomain \notin trackers[trackerDomain]
        tr1 == IF isNew
               THEN [trackers EXCEPT ![trackerDomain] = @ \cup {contextDomain}]
               ELSE trackers
        all1 == IF isNew THEN allTracked \cup {contextDomain} ELSE allTracked
        throws == isNew /\ req.fail = "cookies" /\ ~IsNumber(blocked[trackerDomain])
        bl1 == IF isNew /\ ~throws
               THEN updateAutoBlock(trackerDomain, tr1, all1, blocked,
                                    autoBlockThreshold).blocked
               ELSE blocked
        v == shouldLoadVerdict(bl1, trackerDomain, req.url)
    IN [trackers |-> tr1, allTracked |-> all1, blocked |-> bl1,
        unCookieNext |-> v.unCookieNext, verdict |-> v.verdict, armed |-> v.armed,
        failed |-> throws]

\* shouldLoad with the knownNotTrackers check of lines 111-113 made after the
\* pair is recorded and the policy is run (lines 116-125)
shouldLoadResultKnownLate(req) ==
  LET trackerDomain == getBaseDomain(req.url)
      contextDomain == req.top
      same(v) == [trackers |-> trackers, allTracked |-> allTracked,
                  blocked |-> blocked, unCookieNext |-> unCookieNext,
                  verdict |-> v, armed |-> FALSE, failed |-> FALSE]
  IN
  IF acceptForReload THEN same(ACCEPT)
  ELSE IF req.contentType = TYPE_DOCUMENT THEN same(ACCEPT)
  ELSE IF req.fail = "classify" THEN [same(ACCEPT) EXCEPT !.failed = TRUE]
  ELSE IF req.private THEN same(ACCEPT)
  ELSE IF trackerDomain = contextDomain THEN same(ACCEPT)
  ELSE
    LET isNew == contextDomain \notin trackers[trackerDomain]
        tr1 == IF isNew
               THEN [trackers EXCEPT ![trackerDomain] = @ \cup {contextDomain}]
               ELSE trackers
        all1 == IF isNew THEN allTracked \cup {contextDomain} ELSE allTracked
    IN
    IF isNew /\ req.fail = "cookies" /\ ~IsNumber(blocked[trackerDomain])
    THEN [trackers |-> tr1, allTracked |-> all1, blocked |-> blocked,
          unCookieNext |-> unCookieNext, verdict |-> ACCEPT, armed |-> FALSE,
          failed |-> TRUE]
    ELSE
      LET bl1 == IF isNew
                 THEN updateAutoBlock(trackerDomain, tr1, all1, blocked,
                                      autoBlockThreshold).blocked
                 ELSE blocked
          v == shouldLoadVerdict(bl1, trackerDomain, req.url)
      IN
      IF trackerDomain \in knownNotTrackers
      THEN [trackers |-> tr1, allTracked |-> all1, blocked |-> bl1,
            unCookieNext |-> unCookieNext, verdict |-> ACCEPT, armed |-> FALSE,
            failed |-> FALSE]
      ELSE [trackers |-> tr1, allTracked |-> all1, blocked |-> bl1,
            unCookieNext |-> v.unCookieNext, verdict |-> v.verdict, armed |-> v.armed,
            failed |-> FALSE]

\* shouldLoad running updateAutoBlock for every request that reaches line 116,
\* not only for a new pair
shouldLoadResultAlwaysUpdate(req) ==
  LET trackerDomain == getBaseDomain(req.url)
      contextDomain == req.top
      same(v) == [trackers |-> trackers, allTracked |-> allTracked,
                  blocked |-> blocked, unCookieNext |-> unCookieNext,
                  verdict |-> v, armed |-> FALSE, failed |-> FALSE]
  IN
  IF acceptForReload THEN same(ACCEPT)
  ELSE IF req.contentType = TYPE_DOCUMENT THEN same(ACCEPT)
  ELSE IF req.fail = "classify" THEN [same(ACCEPT) EXCEPT !.failed = TRUE]
  ELSE IF req.private THEN same(ACCEPT)
  ELSE IF trackerDomain = contextDomain THEN same(ACCEPT)
  ELSE IF trackerDomain \in knownNotTrackers THEN same(ACCEPT)
  ELSE
    LET isNew == contextDomain \notin trackers[trackerDomain]
        tr1 == IF isNew
               THEN [trackers EXCEPT ![trackerDomain] = @ \cup {contextDomain}]
               ELSE trackers
        all1 == IF isNew THEN allTracked \cup {contextDomain} ELSE allTracked
    IN
    IF req.fail = "cookies" /\ ~IsNumber(blocked[trackerDomain])
    THEN [trackers |-> tr1, allTracked |-> all1, blocked |-> blocked,
          unCookieNext |-> unCookieNext, verdict |-> ACCEPT, armed |-> FALSE,
          failed |-> TRUE]
    ELSE
      LET bl1 == updateAutoBlock(trackerDomain, tr1, all1, blocked,
                                 autoBlockThreshold).blocked
          v == shouldLoadVerdict(bl1, trackerDomain, req.url)
      IN [trackers |-> tr1, allTracked |-> all1, blocked |-> bl1,
          unCookieNext |-> v.unCookieNext, verdict |-> v.verdict, armed |-> v.armed,
          failed |-> FALSE]

\* shouldLoad: the state it leaves and the verdict it returns
shouldLoadResult(req) ==
  LET trackerDomain == getBaseDomain(req.url)
      contextDomain == req.top
      same(v) == [trackers |-> trackers, allTracked |-> allTracked,
                  blocked |-> blocked, unCookieNext |-> unCookieNext,
                  verdict |-> v, armed |-> FALSE, failed |-> FALSE]
  IN
  IF acceptForReload THEN same(ACCEPT)
  ELSE IF req.contentType = TYPE_DOCUMENT THEN same(ACCEPT)
  \* lines 97-105 throw: the catch of line 138
  ELSE IF req.fail = "classify" THEN [same(ACCEPT) EXCEPT !.failed = TRUE]
  ELSE IF req.private THEN same(ACCEPT)
  ELSE IF trackerDomain = contextDomain THEN same(ACCEPT)
  ELSE IF trackerDomain \in knownNotTrackers THEN same(ACCEPT)
  ELSE
    LET isNew == contextDomain \notin trackers[trackerDomain]
        tr1 == IF isNew
               THEN [trackers EXCEPT ![trackerDomain] = @ \cup {contextDomain}]
               ELSE trackers
        all1 == IF isNew THEN allTracked \cup {contextDomain} ELSE allTracked
    IN
    \* isCookied throws inside updateAutoBlock: the catch of line 138
    IF isNew /\ req.fail = "cookies" /\ ~IsNumber(blocked[trackerDomain])
    THEN [trackers |-> tr1, allTracked |-> all1, blocked |-> blocked,
          unCookieNext |-> unCookieNext, verdict |-> ACCEPT, armed |-> FALSE,
          failed |-> TRUE]
    ELSE
      LET bl1 == IF isNew
                 THEN updateAutoBlock(trackerDomain, tr1, all1, blocked,
                                      autoBlockThreshold).blocked
                 ELSE blocked
          v == shouldLoadVerdict(bl1, trackerDomain, req.url)
      IN [trackers |-> tr1, allTracked |-> all1, blocked |-> bl1,
          unCookieNext |-> v.unCookieNext, verdict |-> v.verdict, armed |-> v.armed,
          failed |-> FALSE]

shouldLoad(req) ==
  LET r == shouldLoadResult(req) IN
  /\ trackers' = r.trackers
  /\ allTracked' = r.allTracked
  /\ blocked' = r.blocked
  /\ unCookieNext' = r.unCookieNext
  /\ last' = [op |-> "shouldLoad", url |-> req.url, ret |-> r.verdict, armed |-> r.armed,
              failed |-> r.failed]
  /\ emitted' = {}
  /\ UNCHANGED <<autoBlockThreshold, acceptForReload, timers, knownNotTrackers,
                 potentialTrackers, cookies>>

\* unCookier clearing the slot only when the url matched
unCookierClearOnMatch(url) ==
  /\ unCookieNext' = IF url = unCookieNext THEN null ELSE unCookieNext
  /\ last' = [op |-> "unCookier", url |-> url,
              ret |-> IF unCookieNext # null /\ url = unCookieNext THEN "strip" ELSE "keep",
              armed |-> FALSE, failed |-> FALSE]
  /\ emitted' = {}
  /\ UNCHANGED <<trackers, blocked, autoBlockThreshold, allTracked, acceptForReload,
                 timers, knownNotTrackers, potentialTrackers, cookies>>

\* the http-on-modify-request observer
unCookier(url) ==
  /\ unCookieNext' = null
  /\ last' = [op |-> "unCookier", url |-> url,
              ret |-> IF unCookieNext # null /\ url = unCookieNext THEN "strip" ELSE "keep",
              armed |-> FALSE, failed |-> FALSE]
  /\ emitted' = {}
  /\ UNCHANGED <<trackers, blocked, autoBlockThreshold, allTracked, acceptForReload,
                 timers, knownNotTrackers, potentialTrackers, cookies>>

----------------------------------------------------------------------------
(* The about:trackers page handlers *)

\* reset without line 213: the stored levels are not cleared before the policy
\* is run again
resetKeepBlocked ==
  LET r == updateAllAutoBlocked(FALSE, trackers, allTracked, blocked,
                                DEFAULT_AUTO_BLOCK_THRESHOLD)
  IN
  /\ autoBlockThreshold' = DEFAULT_AUTO_BLOCK_THRESHOLD
  /\ blocked' = r.blocked
  /\ emitted' = r.emitted
  /\ UNCHANGED <<trackers, allTracked, unCookieNext, acceptForReload, timers,
                 knownNotTrackers, potentialTrackers, cookies, last>>

\* the reset handler of the page
reset ==
  LET bl0 == [t \in TrackerDomains |-> undefined]
      r == updateAllAutoBlocked(FALSE, trackers, allTracked, bl0, DEFAULT_AUTO_BLOCK_THRESHOLD)
  IN
  /\ autoBlockThreshold' = DEFAULT_AUTO_BLOCK_THRESHOLD
  /\ blocked' = r.blocked
  /\ emitted' = r.emitted
  /\ UNCHANGED <<trackers, allTracked, unCookieNext, acceptForReload, timers,
                 knownNotTrackers, potentialTrackers, cookies, last>>

set_threshold(threshold) ==
  LET r == updateAllAutoBlocked(TRUE, trackers, allTracked, blocked, threshold) IN
  /\ autoBlockThreshold' = threshold
  /\ blocked' = r.blocked
  /\ emitted' = r.emitted
  /\ UNCHANGED <<trackers, allTracked, unCookieNext, acceptForReload, timers,
                 knownNotTrackers, potentialTrackers, cookies, last>>

toggle_block(tracker) ==
  /\ blocked' = [blocked EXCEPT ![tracker] = ToggleValue(@)]
  /\ emitted' = {<<tracker, ToggleValue(blocked[tracker])>>}
  /\ UNCHANGED <<trackers, autoBlockThreshold, allTracked, unCookieNext, acceptForReload,
                 timers, knownNotTrackers, potentialTrackers, cookies, last>>

----------------------------------------------------------------------------
(* The reload grace window *)

onReload ==
  /\ timers < MaxTimers
  /\ acceptForReload' = TRUE
  /\ timers' = timers + 1
  /\ emitted' = {}
  /\ UNCHANGED <<trackers, blocked, autoBlockThreshold, allTracked, unCookieNext,
                 knownNotTrackers, potentialTrackers, cookies, last>>

\* the callback given to setTimeout; the timers have the same duration, so the
\* one that fires is the one scheduled first
reloadTimeout ==
  /\ timers > 0
  /\ acceptForReload' = FALSE
  /\ timers' = timers - 1
  /\ emitted' = {}
  /\ UNCHANGED <<trackers, blocked, autoBlockThreshold, allTracked, unCookieNext,
                 knownNotTrackers, potentialTrackers, cookies, last>>

----------------------------------------------------------------------------
(* Preferences, the cookie service, shutdown and startup *)

updateDomains(known, potential) ==
  /\ knownNotTrackers' = known
  /\ potentialTrackers' = potential
  /\ <<known, potential>> # <<knownNotTrackers, potentialTrackers>>
  /\ emitted' = {}
  /\ UNCHANGED <<trackers, blocked, autoBlockThreshold, allTracked, unCookieNext,
                 acceptForReload, timers, cookies, last>>

\* a site sets or clears its cookies
cookiesChange(host) ==
  /\ cookies' = IF host \in cookies THEN cookies \ {host} ELSE cookies \cup {host}
  /\ UNCHANGED <<trackers, blocked, autoBlockThreshold, allTracked, unCookieNext,
                 acceptForReload, timers, knownNotTrackers, potentialTrackers,
                 last, emitted>>

\* the unload handler deleting the entries of up to two sites
pruneUpToTwo(tr) ==
  [t \in TrackerDomains |-> IF Cardinality(tr[t]) <= 2 THEN {} ELSE tr[t]]

\* the unload handler of lines 45-51
pruneSingletons(tr) ==
  [t \in TrackerDomains |-> IF Cardinality(tr[t]) = 1 THEN {} ELSE tr[t]]

\* lines 54-58: the tracked sites of the stored trackers
initAllTracked(tr) == UNION {tr[t] : t \in TrackerDomains}

\* shutdown followed by the next startup (exports.main on the stored data)
restart ==
  /\ trackers' = pruneSingletons(trackers)
  /\ allTracked' = initAllTracked(pruneSingletons(trackers))
  /\ unCookieNext' = null
  /\ acceptForReload' = FALSE
  /\ timers' = 0
  /\ last' = NoCall
  /\ emitted' = {}
  /\ UNCHANGED <<blocked, autoBlockThreshold, knownNotTrackers, potentialTrackers, cookies>>

----------------------------------------------------------------------------
(* Specifications *)

\* The state of a first start: nothing stored, so main() applies the defaults.
Init ==
  /\ trackers = [t \in TrackerDomains |-> {}]
  /\ blocked = [t \in TrackerDomains |-> undefined]
  /\ autoBlockThreshold = DEFAULT_AUTO_BLOCK_THRESHOLD
  /\ allTracked = {}
  /\ unCookieNext = null
  /\ acceptForReload = FALSE
  /\ timers = 0
  /\ knownNotTrackers = {}
  /\ potentialTrackers = {}
  /\ cookies = {}
  /\ last = NoCall
  /\ emitted = {}

\* A start with nothing recorded yet, after the user has set the threshold to
\* 1 and while both tracker domains have cookies.
InitHooks ==
  /\ trackers = [t \in TrackerDomains |-> {}]
  /\ blocked = [t \in TrackerDomains |-> undefined]
  /\ autoBlockThreshold = 1
  /\ allTracked = {}
  /\ unCookieNext = null
  /\ acceptForReload = FALSE
  /\ timers = 0
  /\ knownNotTrackers = {}
  /\ potentialTrackers = {}
  /\ cookies = TrackerDomains
  /\ last = NoCall
  /\ emitted = {}

\* The requests made to url: the subresource loads from pages of the sites of
\* S in normal windows (with and without a failing cookie count), a load in a
\* private window, a load whose context cannot be classified and a top-level
\* document load.  shouldLoad returns before it reads the top-level site
\* (line 104) of the last three, which are given the site of the url itself.
Requests(url, S) ==
  [contentType : {TYPE_OTHER}, url : {url}, top : S, private : {FALSE},
   fail : {"none", "cookies"}]
  \cup [contentType : {TYPE_OTHER}, url : {url}, top : {getBaseDomain(url)},
        private : {TRUE}, fail : {"none"}]
  \cup [contentType : {TYPE_OTHER}, url : {url}, top : {getBaseDomain(url)},
        private : {FALSE}, fail : {"classify"}]
  \cup [contentType : {TYPE_DOCUMENT}, url : {url}, top : {getBaseDomain(url)},
        private : {FALSE}, fail : {"none"}]

\* The pages that embed a tracker in the long browsing session.  Tracker 1 is
\* embedded by any site; the plain sites are interchangeable (they are only
\* ever members of site sets), so the plain site of a request is taken to be
\* the lowest-numbered one among those new to tracker 1, or the
\* lowest-numbered one among those already recorded for it.  Tracker 2 is
\* embedded by the pages of the tracker domains.
Lowest(S) == IF S = {} THEN {} ELSE {CHOOSE s \in S : \A o \in S : s <= o}

Embedders(t) ==
  IF t = 1
  THEN TrackerDomains \cup Lowest(PlainSites \ trackers[1])
                      \cup Lowest(PlainSites \cap trackers[1])
  ELSE TrackerDomains

NextPolicy ==
  \/ \E url \in LongSessionURLs :
       \E req \in Requests(url, Embedders(getBaseDomain(url))) : shouldLoad(req)
  \/ reset
  \/ \E threshold \in Thresholds : set_threshold(threshold)
  \/ \E tracker \in TrackerDomains : toggle_block(tracker)
  \/ \E host \in TrackerDomains : cookiesChange(host)
  \/ restart

SpecPolicy == Init /\ [][NextPolicy]_vars

\* The pages that embed a tracker in the short browsing session: the sites of
\* the session for tracker 1, the pages of the tracker domains for tracker 2.
SmallEmbedders(t) == IF t = 1 THEN SmallSites ELSE TrackerDomains

\* The domain that the user lists in the preferences.
PrefDomains == {1}

NextHooks ==
  \/ \E url \in URLs :
       \E req \in Requests(url, SmallEmbedders(getBaseDomain(url))) : shouldLoad(req)
  \/ \E url \in URLs : unCookier(url)
  \/ \E tracker \in TrackerDomains : toggle_block(tracker)
  \/ onReload
  \/ reloadTimeout
  \/ \E known \in SUBSET PrefDomains, potential \in SUBSET PrefDomains :
       updateDomains(known, potential)

SpecHooks == InitHooks /\ [][NextHooks]_vars

TypeOK ==
  /\ trackers \in [TrackerDomains -> SUBSET Domains]
  /\ blocked \in [TrackerDomains -> BlockedValues]
  /\ autoBlockThreshold \in Thresholds
  /\ allTracked \subseteq Domains
  /\ unCookieNext \in URLs \cup {null}
  /\ acceptForReload \in BOOLEAN
  /\ timers \in 0..MaxTimers

----------------------------------------------------------------------------
(* Properties *)

\* The enforcement level the policy is specified to compute from the number of
\* sites n, the threshold T, the cookie presence and the directly-browsed flag.
ExpectedLevel(n, T, hasCookies, direct) ==
  IF ~hasCookies THEN undefined
  ELSE IF n < T THEN undefined
  ELSE IF n < 2 * T THEN AUTO_BLOCK_COOKIE
  ELSE IF direct THEN AUTO_BLOCK_COOKIE
  ELSE AUTO_BLOCK_CONNECTION

\* A subresource request of a normal window in which no step fails.
PlainRequest(url, top) ==
  [contentType |-> TYPE_OTHER, url |-> url, top |-> top, private |-> FALSE, fail |-> "none"]

\* C1: when the policy runs for a tracker whose level is not user-set (after a
\* new observation in shouldLoad, or for every recorded tracker in
\* set_threshold), the stored level becomes None without cookies, else None
\* below T sites, Cookie from T to 2T-1, and from 2T Cookie if directly
\* browsed, Connection if not; set_threshold reports exactly the trackers whose
\* level differs from the one stored before.  With T=5, cookies and never
\* directly browsed: None up to 4 sites, Cookie for 5..9, Connection from 10.
C1_PolicyLevel ==
  [][ /\ \A url \in URLs :
           LET t == getBaseDomain(url) IN
           ( /\ ~IsNumber(blocked[t])
             /\ \E top \in trackers'[t] \ trackers[t] : shouldLoad(PlainRequest(url, top)) )
           => /\ blocked'[t] = ExpectedLevel(Cardinality(trackers'[t]), autoBlockThreshold,
                                             t \in cookies, t \in allTracked')
              /\ ( autoBlockThreshold = 5 /\ t \in cookies /\ t \notin allTracked' )
                 => /\ Cardinality(trackers'[t]) \in 1..4 => blocked'[t] = undefined
                    /\ Cardinality(trackers'[t]) \in 5..9 => blocked'[t] = AUTO_BLOCK_COOKIE
                    /\ Cardinality(trackers'[t]) >= 10 => blocked'[t] = AUTO_BLOCK_CONNECTION
      /\ \A threshold \in Thresholds :
           set_threshold(threshold)
           => \A t \in TrackerDomains :
                ( trackers[t] # {} /\ ~IsNumber(blocked[t]) )
                => /\ blocked'[t] = ExpectedLevel(Cardinality(trackers[t]), threshold,
                                                  t \in cookies, t \in allTracked)
                   /\ (<<t, blocked'[t]>> \in emitted') <=> (blocked'[t] # blocked[t])
    ]_vars

\* C1 witness: the tenth site of a cookied, never directly browsed tracker has
\* just been recorded under the threshold 5 and the level is Connection.
C1_Witness ==
  /\ last.op = "shouldLoad" /\ last.url # null
  /\ LET t == getBaseDomain(last.url) IN
       /\ autoBlockThreshold = 5
       /\ Cardinality(trackers[t]) = 10
       /\ t \in cookies
       /\ t \notin allTracked
       /\ blocked[t] = AUTO_BLOCK_CONNECTION

\* C2 (as claimed): a tracker that is in allTracked never has the stored auto
\* level Connection.
C2_DirectNeverConnection ==
  \A t \in TrackerDomains : t \in allTracked => blocked[t] # AUTO_BLOCK_CONNECTION

\* C3 (as claimed): a tracker with an auto level, at least 2T sites, cookies
\* and not in allTracked has the stored level Connection.
C3_ConnectionAtTwiceThreshold ==
  \A t \in TrackerDomains :
    ( /\ ~IsNumber(blocked[t])
      /\ Cardinality(trackers[t]) >= autoBlockThreshold * 2
      /\ t \notin allTracked
      /\ t \in cookies )
    => blocked[t] = AUTO_BLOCK_CONNECTION

\* C4: a user-set level of a tracker changes only in a toggle_block of that
\* tracker or in a reset; observations, threshold changes, cookie changes and
\* restarts leave it as the user set it.
C4_UserSetSticky ==
  [][ \A t \in TrackerDomains :
        ( IsNumber(blocked[t]) /\ blocked'[t] # blocked[t] )
        => ( toggle_block(t) \/ reset )
    ]_vars

\* C4 witness: a request has just been evaluated for a tracker whose level is
\* user-set while the policy would give it a level of its own.
C4_Witness ==
  /\ last.op = "shouldLoad" /\ last.url # null
  /\ LET t == getBaseDomain(last.url) IN
       /\ IsNumber(blocked[t])
       /\ ExpectedLevel(Cardinality(trackers[t]), autoBlockThreshold,
                        t \in cookies, t \in allTracked) = AUTO_BLOCK_CONNECTION

C6_StripOncePerArm ==
  [][ \A url \in URLs :
        ( last'.op = "unCookier" /\ unCookier(url) )
        => /\ unCookieNext' = null
           /\ (last'.ret = "strip") <=> (unCookieNext = url)
           /\ last.op = "unCookier" => last'.ret = "keep"
           /\ last.op = "none" => last'.ret = "keep"
    ]_vars

\* C6 witness: a send had its cookies stripped and the slot is empty.
C6_Witness ==
  /\ last.op = "unCookier" /\ last.ret = "strip" /\ unCookieNext = null

\* C7 (as claimed): the send of a request that shouldLoad has just accepted
\* without arming the slot is never stripped.
C7_NoStaleStrip ==
  [][ \A url \in URLs :
        ( /\ last.op = "shouldLoad" /\ last.url = url /\ ~last.armed
          /\ last'.op = "unCookier" /\ unCookier(url) )
        => last'.ret # "strip"
    ]_vars

\* C8 (as claimed): the grace window is active as long as a deactivation
\* scheduled by a reload is still pending.
C8_ActiveUntilLastTimer ==
  timers > 0 => acceptForReload

\* C9 (as claimed): a set_threshold that raises the threshold brings no
\* tracker with an auto level to Connection that was not there, and none from
\* None to Cookie.
C9_RaiseNeverUpgrades ==
  [][ \A threshold \in Thresholds :
        ( threshold > autoBlockThreshold /\ set_threshold(threshold) )
        => \A t \in TrackerDomains :
             ~IsNumber(blocked[t])
             => /\ blocked'[t] = AUTO_BLOCK_CONNECTION => blocked[t] = AUTO_BLOCK_CONNECTION
                /\ blocked[t] = undefined => blocked'[t] # AUTO_BLOCK_COOKIE
    ]_vars

\* C10 (as claimed): after set_threshold(T) every tracker that has a ledger
\* entry or a stored auto level, and no user-set level, has the level the
\* policy gives for T, its site count, cookies and directly-browsed status.
C10_AllReevaluated ==
  [][ \A threshold \in Thresholds :
        ( autoBlockThreshold' = threshold /\ set_threshold(threshold) )
        => \A t \in TrackerDomains :
             ( /\ trackers[t] # {} \/ blocked[t] \in {AUTO_BLOCK_COOKIE, AUTO_BLOCK_CONNECTION}
               /\ ~IsNumber(blocked[t]) )
             => blocked'[t] = ExpectedLevel(Cardinality(trackers[t]), threshold,
                                            t \in cookies, t \in allTracked)
    ]_vars


\* The requests of a url that the long session and the short session issue.
PolicyRequests(url) == Requests(url, Embedders(getBaseDomain(url)))

HookRequests(url) == Requests(url, SmallEmbedders(getBaseDomain(url)))

\* What every shouldLoad call for url leaves behind, whatever the request was:
\* it is the most recent call, and nothing but the ledger, the levels and the
\* slot has changed.
ShouldLoadStep(url) ==
  /\ last'.op = "shouldLoad"
  /\ last'.url = url
  /\ emitted' = {}
  /\ UNCHANGED <<autoBlockThreshold, acceptForReload, timers, knownNotTrackers,
                 potentialTrackers, cookies>>

\* A step of the request fails: the request is past the grace check and the
\* document check and either its classification throws, or it reaches the cookie
\* query of updateAutoBlock (a new pair of a tracker whose level is not
\* user-set) and that query throws.
Throws(req) ==
  /\ ~acceptForReload
  /\ req.contentType # TYPE_DOCUMENT
  /\ \/ req.fail = "classify"
     \/ /\ req.fail = "cookies"
        /\ ~req.private
        /\ getBaseDomain(req.url) # req.top
        /\ getBaseDomain(req.url) \notin knownNotTrackers
        /\ req.top \notin trackers[getBaseDomain(req.url)]
        /\ ~IsNumber(blocked[getBaseDomain(req.url)])

\* C11: shouldLoad fails open.  Whenever a step after the grace check throws
\* (the classification of the request, or the cookie query of the policy), the
\* exception is caught inside shouldLoad and the call returns ACCEPT, whatever
\* the stored level of the tracker is.
C11_FailOpen ==
  [][ \A url \in URLs :
        ShouldLoadStep(url) =>
          \/ last'.ret = ACCEPT /\ last'.failed
          \/ ~ \E req \in PolicyRequests(url) :
                 req.fail # "none" /\ Throws(req) /\ shouldLoad(req) ]_vars

\* The cookie query failed for a request whose tracker is stored at connection
\* (such a request is rejected when nothing fails), and the call returned ACCEPT.
C11_Witness ==
  \E t \in TrackerDomains :
    /\ last.op = "shouldLoad"
    /\ last.failed
    /\ last.ret = ACCEPT
    /\ getBaseDomain(last.url) = t
    /\ blocked[t] = AUTO_BLOCK_CONNECTION
    /\ t \notin potentialTrackers
    /\ t \notin allTracked
    /\ Cardinality(trackers[t]) > 2 * autoBlockThreshold

\* C12: whenever a policy evaluation changes the stored level of a tracker (an
\* automatic level replaced by another automatic level: in shouldLoad after a
\* new pair, in set_threshold or in reset), the handler emits update_block for
\* that tracker with the new level.
C12_ChangeNotified ==
  [][ \A t \in TrackerDomains :
        (/\ ~IsNumber(blocked[t])
         /\ ~IsNumber(blocked'[t])
         /\ blocked'[t] # blocked[t]) =>
          <<t, blocked'[t]>> \in emitted' ]_vars

\* The request takes one of the early returns of lines 86-113.
EarlyAccept(req) ==
  \/ acceptForReload
  \/ req.contentType = TYPE_DOCUMENT
  \/ req.private
  \/ getBaseDomain(req.url) = req.top
  \/ getBaseDomain(req.url) \in knownNotTrackers

\* C13: a request accepted early (reload grace window active, top-level
\* document, private window, first party, or tracker in knownNotTrackers) is
\* accepted and changes nothing: storage.trackers, allTracked, every stored
\* level and unCookieNext are the same after the call as before it.
C13_EarlyAcceptFrame ==
  [][ \A url \in URLs :
        ShouldLoadStep(url) =>
          \/ /\ last'.ret = ACCEPT
             /\ UNCHANGED <<trackers, allTracked, blocked, unCookieNext>>
          \/ ~ \E req \in HookRequests(url) :
                 req.fail # "classify" /\ EarlyAccept(req) /\ shouldLoad(req) ]_vars

\* The most recent call accepted, without arming and without failing, a request
\* to a tracker stored at connection (an early return: the verdict of lines
\* 127-136 would have been REJECT), and the slot armed before it is still set.
C13_Witness ==
  \E t \in TrackerDomains :
    /\ last.op = "shouldLoad"
    /\ getBaseDomain(last.url) = t
    /\ last.ret = ACCEPT
    /\ ~last.armed
    /\ ~last.failed
    /\ blocked[t] = AUTO_BLOCK_CONNECTION
    /\ unCookieNext # null

\* C14: immediately after reset the threshold is the default 5, no tracker has a
\* user-set level, and every tracker of storage.trackers is stored at the level
\* the policy gives for its current number of sites, its cookies and its
\* directly-browsed status under that threshold.
C14_Reset ==
  [][ reset =>
        /\ autoBlockThreshold' = 5
        /\ \A t \in TrackerDomains :
             /\ ~IsNumber(blocked'[t])
             /\ trackers'[t] # {} =>
                  blocked'[t] = ExpectedLevel(Cardinality(trackers'[t]), 5,
                                              t \in cookies', t \in allTracked') ]_vars

\* reset has acted on a user-set level: the most recent request to tracker u
\* was rejected although u never had two sites (so u was user-blocked), u has
\* no user-set level any more, and the threshold is the default; a tracker with
\* at least five sites is stored at an automatic blocking level.
C14_Witness ==
  \E t, u \in TrackerDomains :
    /\ last.op = "shouldLoad"
    /\ getBaseDomain(last.url) = u
    /\ last.ret = REJECT_REQUEST
    /\ Cardinality(trackers[u]) < 2
    /\ ~IsNumber(blocked[u])
    /\ autoBlockThreshold = 5
    /\ emitted = {}
    /\ Cardinality(trackers[t]) >= 5
    /\ blocked[t] \in {AUTO_BLOCK_COOKIE, AUTO_BLOCK_CONNECTION}

\* C15: the prune at shutdown deletes exactly the entries of storage.trackers
\* that have one site and leaves every entry of two or more sites as it is; in
\* every other step no entry is removed and no site set loses a member.
C15_PruneAtShutdownOnly ==
  [][ /\ restart =>
           \A t \in TrackerDomains :
             trackers'[t] = IF Cardinality(trackers[t]) = 1 THEN {} ELSE trackers[t]
      /\ ~restart =>
           \A t \in TrackerDomains : trackers[t] \subseteq trackers'[t] ]_vars

\* Just after a restart: tracker 1 kept its entry of several sites, and the
\* entry of another tracker, which had reached the cookie level, is gone.
C15_Witness ==
  \E t, u \in TrackerDomains :
    /\ last = NoCall
    /\ Cardinality(trackers[t]) >= 2
    /\ trackers[u] = {}
    /\ blocked[u] = AUTO_BLOCK_COOKIE

\* C16: the slot holds one url.  When shouldLoad arms u2 while another url u1
\* is still pending (armed earlier, no send since), the slot holds u2 only.
\* A send of another url than the one the preceding call armed keeps its
\* cookies and empties the slot; the send of the url the preceding call armed
\* is stripped; and a send that follows a send keeps its cookies.  So after
\* arm(u1), arm(u2): u1 is never stripped, u2 is stripped only if its send is
\* the first one, and if u1 is sent first neither is stripped.
C16_LastArmWins ==
  [][ /\ \A u2 \in URLs :
           ( /\ last'.op = "shouldLoad" /\ last'.url = u2 /\ last'.armed
             /\ unCookieNext # null /\ unCookieNext # u2
             /\ \E req \in HookRequests(u2) : shouldLoad(req) )
           => unCookieNext' = u2
      /\ \A u \in URLs :
           ( last'.op = "unCookier" /\ last'.url = u /\ unCookier(u) )
           => /\ (last.op = "shouldLoad" /\ last.armed /\ last.url # u)
                 => (last'.ret = "keep" /\ unCookieNext' = null)
              /\ (last.op = "shouldLoad" /\ last.armed /\ last.url = u)
                 => last'.ret = "strip"
              /\ (last.op = "unCookier" /\ last.url # u) => last'.ret = "keep"
    ]_vars

\* Two trackers are stored at the cookie level, so requests to both arm the
\* slot; the send of one of them has just gone out with its cookies and the
\* slot is empty, outside the reload window and with no one listed as a
\* non-tracker: the suppression armed for it was lost.
C16_Witness ==
  \E t, u \in TrackerDomains :
    /\ t # u
    /\ last.op = "unCookier"
    /\ getBaseDomain(last.url) = t
    /\ last.ret = "keep"
    /\ unCookieNext = null
    /\ blocked[t] = AUTO_BLOCK_COOKIE
    /\ blocked[u] = AUTO_BLOCK_COOKIE
    /\ trackers[t] # {}
    /\ trackers[u] # {}
    /\ ~acceptForReload
    /\ timers = 0
    /\ knownNotTrackers = {}

\* C17: a request whose (tracker, site) pair is already in storage.trackers
\* leaves storage.trackers, allTracked and every stored level as they are, also
\* when the cookies of the tracker or its directly-browsed status have changed
\* since the level was stored.
C17_KnownPairFrame ==
  [][ \A url \in URLs :
        ShouldLoadStep(url) =>
          \/ UNCHANGED <<trackers, allTracked, blocked>>
          \/ ~ \E req \in PolicyRequests(url) :
                 req.top \in trackers[getBaseDomain(url)] /\ shouldLoad(req) ]_vars

\* The most recent call rejected, without failing, a request to a tracker that
\* is stored at connection although the user browses it directly (the policy
\* never gives connection to such a tracker): the request was of a known pair
\* and the stale level was left in place.
C17_Witness ==
  \E t \in TrackerDomains :
    /\ last.op = "shouldLoad"
    /\ getBaseDomain(last.url) = t
    /\ last.ret = REJECT_REQUEST
    /\ ~last.failed
    /\ blocked[t] = AUTO_BLOCK_CONNECTION
    /\ t \in allTracked
    /\ t \in cookies

\* C18: in every reachable state, also after the prune at shutdown and a
\* restart, a tracker stored at cookie has at least autoBlockThreshold sites in
\* storage.trackers, and a tracker stored at connection has at least
\* CONNECTION_MULTIPLIER times as many.
C18_LevelHasSites ==
  \A t \in TrackerDomains :
    /\ blocked[t] = AUTO_BLOCK_COOKIE =>
         Cardinality(trackers[t]) >= autoBlockThreshold
    /\ blocked[t] = AUTO_BLOCK_CONNECTION =>
         Cardinality(trackers[t]) >= 2 * autoBlockThreshold

\* C19: toggle_block always stores a user-set level, never an automatic one:
\* a tracker stored at cookie, at connection or user-blocked becomes
\* user-unblocked, and a tracker with no stored level or user-unblocked becomes
\* user-blocked.  A user-set level is therefore flipped by each toggle, so
\* two consecutive toggles of a user-set tracker restore its level.
C19_Toggle ==
  [][ \A t \in TrackerDomains :
        toggle_block(t) =>
          /\ IsNumber(blocked'[t])
          /\ blocked[t] \in {AUTO_BLOCK_COOKIE, AUTO_BLOCK_CONNECTION, number1} =>
               blocked'[t] = number0
          /\ blocked[t] \in {undefined, number0} => blocked'[t] = number1
          /\ (emitted = {<<t, blocked[t]>>} /\ IsNumber(blocked[t])) =>
               (blocked[t] = number1 <=> blocked'[t] = number0)
          /\ emitted' = {<<t, blocked'[t]>>} ]_vars

\* The most recent request to tracker t armed the cookie removal with t not
\* listed as a potential tracker (t was stored at cookie), and the toggle that
\* followed made t user-unblocked.
C19_Witness ==
  \E t \in TrackerDomains :
    /\ emitted = {<<t, number0>>}
    /\ blocked[t] = number0
    /\ last.op = "shouldLoad"
    /\ getBaseDomain(last.url) = t
    /\ last.armed
    /\ potentialTrackers = {}
    /\ trackers[t] # {}

\* C20: a call of shouldLoad in which a step throws changes no enforcement
\* state: every stored level and unCookieNext are as before the call.
\* storage.trackers is as before too when the classification threw; when the
\* cookie query of the policy threw, the new pair is recorded and the level
\* of the tracker has not been evaluated again.
C20_FailureFrame ==
  [][ \A url \in URLs :
        ShouldLoadStep(url) =>
          \A req \in HookRequests(url) :
            (req.fail # "none" /\ Throws(req) /\ shouldLoad(req)) =>
              /\ UNCHANGED <<blocked, unCookieNext>>
              /\ req.fail = "classify" => UNCHANGED trackers
              /\ req.fail = "cookies" =>
                   trackers' = [trackers EXCEPT ![getBaseDomain(url)] = @ \cup {req.top}]
    ]_vars

\* The cookie query threw for the second site of a tracker stored at cookie:
\* the pair is recorded, the level is still cookie although the policy gives
\* connection for this tracker now, and the slot was left empty.
C20_Witness ==
  \E t \in TrackerDomains :
    /\ last.op = "shouldLoad"
    /\ getBaseDomain(last.url) = t
    /\ last.failed
    /\ last.ret = ACCEPT
    /\ blocked[t] = AUTO_BLOCK_COOKIE
    /\ Cardinality(trackers[t]) >= 2 * autoBlockThreshold
    /\ t \in cookies
    /\ t \notin allTracked
    /\ unCookieNext = null

====
